---- MODULE Spec2Model ----
(***************************************************************************)
(* Halo analysis of torch/csrc/jit/codegen/cuda/lower_shift.cpp:           *)
(* AxisHaloInfo (per-axis low/high halo widths), HaloInfo::build (backward *)
(* root-axis propagation over the fusion's expressions, forward            *)
(* propagation through the split/merge expressions of a tensor domain)     *)
(* and the extent comparators.                                             *)
(*                                                                         *)
(* The fusion model follows one root-axis position through the fusion:     *)
(* propagateRootAxisInfo treats every consumer root axis independently of  *)
(* the others, so each tensor of the fusion model carries one root axis.   *)
(***************************************************************************)
EXTENDS Integers, Sequences, FiniteSets, TLC

VARIABLES
  fusion,             \* the expressions of the fusion, in topological order
  broadcast,          \* IterDomain::isBroadcast of each tensor's root axis
  root_axis_map,      \* HaloInfo::root_axis_map_      (tensor -> AxisHaloInfo)
  kir_root_axis_map,  \* HaloInfo::kir_root_axis_map_  (lowered twin)
  pc,                 \* position of HaloInfo::build(Fusion*)
  idx,                \* loop index inside the current phase of build
  halo_width_map,     \* HaloInfo::halo_width_map_   (axis -> kir::Int)
  kir_extent_map,     \* HaloInfo::kir_extent_map_   (axis -> extended extent)
  shape,              \* the split/merge expressions of the tensor domains
  td,                 \* the tensor whose domain build(TensorDomain* td) walks
  merged_shifted_ids, \* the local set merged_shifted_ids of that call
  cmp,                \* arguments and outcome of a comparator call
  ma, mb, mout,       \* operands and result of a stand-alone AxisHaloInfo::merge
  val,                \* arguments and outcome of the last HaloInfo::validate
  expr,               \* the expression ShiftPredicateInserter::insert is given
  out_tv,             \* its output tensor: the root axes and the memory type
  scope,              \* loops.back()->body(), the innermost loop body
  generated           \* arguments and result of the last getPredicate

domVars == <<halo_width_map, kir_extent_map, shape, td, merged_shifted_ids,
             cmp>>

mergeVars == <<ma, mb, mout>>

lowerVars == <<val, expr, out_tv, scope, generated>>

vars == <<fusion, broadcast, root_axis_map, kir_root_axis_map, pc, idx,
          domVars, mergeVars, lowerVars>>

----------------------------------------------------------------------------
(* Bounds of the model *)

NumTvs == 5        \* tensors T0 .. T(NumTvs-1); T0 is the fusion input
MaxOffset == 1     \* shift offsets range over -MaxOffset .. MaxOffset
MaxWindow == 2     \* gather window sizes range over 1 .. MaxWindow
MaxPad == 2        \* gather left paddings range over 0 .. MaxPad
MaxWidth == 2      \* constant widths fed to the stand-alone merge
NumRoots == 2      \* root axes of a tensor domain
MaxExprs == 3      \* split/merge expressions of a tensor domain
MaxHalo == 1       \* low and high halo of a root axis of a tensor domain

----------------------------------------------------------------------------
(* kir::Int values.  A value is a compile-time constant, a named scalar or *)
(* an expression node over values.                                         *)

Const(n) == <<"const", n>>
Sym(k) == <<"sym", k>>

isConst(x) == x[1] = "const"
value(x) == x[2]
isZeroInt(x) == isConst(x) /\ value(x) = 0
isOneInt(x) == isConst(x) /\ value(x) = 1

zeroVal == Const(0)

Max(a, b) == IF a >= b THEN a ELSE b
Abs(a) == IF a >= 0 THEN a ELSE -a

\* kir::IrBuilder::maxExpr / addExpr / mulExpr: a new expression node
maxExpr(a, b) == <<"max", a, b>>
plainAddExpr(a, b) == <<"add", a, b>>
mulExpr(a, b) == <<"mul", a, b>>

\* kir::SimplifyingIrBuilder::addExpr / subExpr: constants fold, a known
\* zero collapses
addExpr(a, b) ==
  IF isZeroInt(b) THEN a
  ELSE IF isConst(a) /\ isConst(b) THEN Const(value(a) + value(b))
  ELSE IF isZeroInt(a) THEN b
  ELSE <<"add", a, b>>

subExpr(a, b) ==
  IF isZeroInt(b) THEN a
  ELSE IF isConst(a) /\ isConst(b) THEN Const(value(a) - value(b))
  ELSE <<"sub", a, b>>

----------------------------------------------------------------------------
(* AxisHaloInfo: widths_[0] is the low side, widths_[1] the high side.     *)
(* Positions are 1 (low) and 2 (high) in the model.                        *)

AxisHaloInfo == <<zeroVal, zeroVal>>

width(info, pos) == info[pos]

totalWidth(info) == addExpr(width(info, 1), width(info, 2))

setWidth(info, pos, w) == [info EXCEPT ![pos] = w]

\* a merge that overwrites with the incoming width instead of taking the max
mergePosOverwrite(info, pos, other) == setWidth(info, pos, other)

\* AxisHaloInfo::merge(int pos, kir::Int* other)
mergePos(info, pos, other) ==
  LET cur == width(info, pos)
      new_width ==
        IF isConst(cur) /\ isConst(other)
          THEN Const(Max(value(cur), value(other)))
        ELSE IF isZeroInt(cur) THEN other
        ELSE IF isZeroInt(other) THEN cur
        ELSE maxExpr(cur, other)
  IN setWidth(info, pos, new_width)

\* a merge of the low side only
mergeLowOnly(info, other) == mergePos(info, 1, width(other, 1))

\* AxisHaloInfo::merge(const AxisHaloInfo& other)
merge(info, other) ==
  mergePos(mergePos(info, 1, width(other, 1)), 2, width(other, 2))

hasHalo(info) == ~isZeroInt(width(info, 1)) \/ ~isZeroInt(width(info, 2))

----------------------------------------------------------------------------
(* The fusion.  Tensor 0 is the fusion input; tensor t > 0 is the output   *)
(* of expression fusion[t], whose inputs are tensors defined before it, so *)
(* 1 .. NumTvs-1 is the order of Fusion::exprs().  The backward walk reads *)
(* an expression when it visits it, and the model draws the expression at  *)
(* that moment: fusion[t] is "unvisited" until the walk has reached t.     *)

Tvs == 0 .. (NumTvs - 1)
ExprIds == 1 .. (NumTvs - 1)

InputTv == [op |-> "input", inputs |-> {}, offset |-> 0, window |-> 0,
            pad |-> 0]

Unvisited == [op |-> "unvisited", inputs |-> {}, offset |-> 0, window |-> 0,
              pad |-> 0]

ShiftOps(t) ==
  { [op |-> "shift", inputs |-> {p}, offset |-> o, window |-> 0, pad |-> 0] :
      p \in 0 .. (t - 1), o \in (-MaxOffset) .. MaxOffset }

GatherOps(t) ==
  { [op |-> "gather", inputs |-> {p}, offset |-> 0, window |-> w, pad |-> pd] :
      p \in 0 .. (t - 1), w \in 1 .. MaxWindow, pd \in 0 .. MaxPad }

OtherOps(t) ==
  { [op |-> "other", inputs |-> {p, q}, offset |-> 0, window |-> 0, pad |-> 0] :
      p \in 0 .. (t - 1), q \in 0 .. (t - 1) }

Exprs(t) == ShiftOps(t) \cup GatherOps(t) \cup OtherOps(t)

\* no tensor is taken for a fusion input
isFusionInputNever(t) == FALSE

\* TensorView::isFusionInput
isFusionInput(t) == t = 0

\* TensorView::uses
uses(f, p) == { c \in ExprIds : p \in f[c].inputs }

\* IterDomain::isBroadcast of the output root axis of an expression.  A
\* consumer broadcast axis is mapped to producer axes that are broadcast
\* too, and a shift or a gather keeps the kind of the axis it is applied to.
Unary(e) == e.op \in {"shift", "gather"}

MustBeBroadcast(f, b, t) == \E c \in uses(f, t) : b[c]

MustBeConcrete(f, b, t) == \E c \in uses(f, t) : Unary(f[c]) /\ ~b[c]

BroadcastOk(f, b) ==
  \A t \in Tvs : ~(MustBeBroadcast(f, b, t) /\ MustBeConcrete(f, b, t))

----------------------------------------------------------------------------
(* HaloInfo::propagateRootAxisInfo(producer, consumer, expr), the body of  *)
(* the loop over the consumer root axes.  The result says whether the      *)
(* assertion of the broadcast branch held, whether control reached         *)
(* setRootAxisInfo(p_id, p_info), and the value of the local copy p_info.  *)

\* the halo of a shift placed on the wrong side
shiftPosSwapped(offset) == IF offset > 0 THEN 2 ELSE 1

\* "int pos = (offset > 0) ? 0 : 1"
shiftPos(offset) == IF offset > 0 THEN 1 ELSE 2

\* a shift that merges its offset alone, without the halo of the consumer
propagateShiftOffsetOnly(p_info, c_info, offset) ==
  IF offset = 0
    THEN merge(p_info, c_info)
    ELSE mergePos(p_info, shiftPos(offset), Const(Abs(offset)))

propagateShift(p_info, c_info, offset) ==
  IF offset = 0
    THEN merge(p_info, c_info)
    ELSE LET pos == shiftPos(offset)
         IN mergePos(p_info, pos,
                     addExpr(width(c_info, pos), Const(Abs(offset))))

\* the high side propagated as consumer_right_halo + window_dim - left_padding
propagateGatherOffByOne(p_info, c_info, window_dim, pad_dim0) ==
  LET low == mergePos(p_info, 1, addExpr(width(c_info, 1), pad_dim0))
  IN mergePos(low, 2,
              subExpr(addExpr(width(c_info, 2), window_dim), pad_dim0))

propagateGather(p_info, c_info, window_dim, pad_dim0) ==
  LET low == mergePos(p_info, 1, addExpr(width(c_info, 1), pad_dim0))
  IN mergePos(low, 2,
              subExpr(addExpr(width(c_info, 2), window_dim),
                      addExpr(pad_dim0, Const(1))))

propagateAxis(p_info, c_info, e, c_is_broadcast) ==
  IF c_is_broadcast
    THEN [ok |-> ~hasHalo(c_info), stored |-> TRUE,
          info |-> merge(p_info, c_info)]
  ELSE IF e.op = "shift"
    THEN [ok |-> TRUE, stored |-> TRUE,
          info |-> propagateShift(p_info, c_info, e.offset)]
  ELSE IF e.op = "gather"
    THEN IF isOneInt(Const(e.window))
           \* p_info.merge(c_info); continue;  -- the local copy is dropped
           THEN [ok |-> TRUE, stored |-> FALSE,
                 info |-> merge(p_info, c_info)]
           ELSE [ok |-> TRUE, stored |-> TRUE,
                 info |-> propagateGather(p_info, c_info, Const(e.window),
                                          Const(e.pad))]
  ELSE [ok |-> TRUE, stored |-> TRUE, info |-> merge(p_info, c_info)]

\* the producers of expression c that propagateRootAxisInfo does not skip
producersOf(f, c) == { p \in f[c].inputs : ~isFusionInput(p) }

\* HaloInfo::propagateRootAxisInfo(Expr*): the root axis map after every
\* input tensor of the expression has been visited
propagateRootAxisInfo(map, f, b, c) ==
  [t \in Tvs |->
     IF t \in producersOf(f, c)
       THEN LET r == propagateAxis(map[t], map[c], f[c], b[c])
            IN IF r.stored THEN r.info ELSE map[t]
       ELSE map[t]]

propagateAsserts(map, f, b, c) ==
  \A p \in producersOf(f, c) : propagateAxis(map[p], map[c], f[c], b[c]).ok

----------------------------------------------------------------------------
(* HaloInfo::build(TensorDomain* td), the loop over the root axes          *)

NoEntry == <<"none">>

\* lowerValue(id->extent()): the extent of an axis without halo
Extent(id) == <<"extent", id>>

\* the entries of halo_width_map_ and kir_extent_map_ made for a root axis
rootHaloWidth(info) == IF hasHalo(info) THEN totalWidth(info) ELSE zeroVal

rootExtent(info, id) ==
  IF hasHalo(info) THEN plainAddExpr(Extent(id), totalWidth(info)) ELSE NoEntry

----------------------------------------------------------------------------
(* HaloInfo::build(Fusion* fusion): the backward walk                      *)

MergeIdle == ma = AxisHaloInfo /\ mb = AxisHaloInfo /\ mout = NoEntry

\* no call of HaloInfo::validate yet
NoValidate == [tv |-> -1, mem |-> "none", ptype |-> "none", concrete |-> -1,
               mapped |-> {}, outcome |-> "none"]

LowerIdle ==
  /\ val = NoValidate
  /\ expr = NoEntry
  /\ out_tv = NoEntry
  /\ scope = <<>>
  /\ generated = NoEntry

DomainIdle ==
  /\ halo_width_map = <<>>
  /\ kir_extent_map = <<>>
  /\ shape = <<>>
  /\ td = 0
  /\ merged_shifted_ids = {}
  /\ cmp = NoEntry

Init ==
  /\ fusion = [t \in Tvs |-> IF t = 0 THEN InputTv ELSE Unvisited]
  /\ broadcast = [t \in ExprIds |-> FALSE]
  \* "Initialize all root axis info"
  /\ root_axis_map = [t \in Tvs |-> AxisHaloInfo]
  /\ kir_root_axis_map = [t \in Tvs |-> AxisHaloInfo]
  /\ pc = "backward"
  /\ idx = NumTvs - 1
  /\ DomainIdle
  /\ MergeIdle
  /\ LowerIdle

\* a walk that stops one expression short of exprs.rend()
moreExprsButLast(i) == i > 2

\* "it != exprs.rend()" after the expression defining tensor i
moreExprs(i) == i > 1

\* one iteration of "for (auto it = exprs.rbegin(); ...)": the call
\* propagateRootAxisInfo(expr) for the expression defining tensor idx
\* for the expressions E and the broadcast flags F the fusion may hold
Walk(E, F) ==
  /\ pc = "backward"
  /\ \E e \in E, flag \in F :
       /\ MustBeBroadcast(fusion, broadcast, idx) => flag
       /\ MustBeConcrete(fusion, broadcast, idx) => ~flag
       /\ fusion' = [fusion EXCEPT ![idx] = e]
       /\ broadcast' = [broadcast EXCEPT ![idx] = flag]
       /\ BroadcastOk(fusion', broadcast')
  /\ IF propagateAsserts(root_axis_map, fusion', broadcast', idx)
       THEN /\ root_axis_map' =
                 propagateRootAxisInfo(root_axis_map, fusion', broadcast', idx)
            \* setRootAxisInfo writes both maps
            /\ kir_root_axis_map' =
                 propagateRootAxisInfo(root_axis_map, fusion', broadcast', idx)
            /\ IF moreExprs(idx)
                 THEN pc' = "backward" /\ idx' = idx - 1
                 ELSE pc' = "forward" /\ idx' = 0
       ELSE /\ pc' = "fatal"
            /\ UNCHANGED <<root_axis_map, kir_root_axis_map, idx>>
  /\ UNCHANGED <<domVars, mergeVars, lowerVars>>

Backward == Walk(Exprs(idx), BOOLEAN)

Next == Backward

Spec == Init /\ [][Next]_vars

----------------------------------------------------------------------------
(* Properties of the backward walk                                         *)

WalkDone == pc = "forward"

ConstInfo(lo, hi) == <<Const(lo), Const(hi)>>

\* the largest element of a non-empty set of integers
MaxOf(S) == CHOOSE m \in S : \A x \in S : m >= x

\* tensor p is not a fusion input and expression c is its only use
OnlyUse(p, c) == ~isFusionInput(p) /\ uses(fusion, p) = {c}

ShiftCase(p, c) ==
  /\ OnlyUse(p, c)
  /\ fusion[c].op = "shift"
  /\ ~hasHalo(root_axis_map[c])

\* C1 as stated: after the walk, a non-input producer whose only use is a
\* shift by offset o from a consumer axis with zero halo has low halo
\* max(o,0) and high halo max(-o,0), for every o.
C1_Original ==
  WalkDone =>
    \A p \in Tvs, c \in ExprIds :
      ShiftCase(p, c) =>
        root_axis_map[p] =
          ConstInfo(Max(fusion[c].offset, 0), Max(-fusion[c].offset, 0))

\* C1 amended: the same, for a consumer root axis that is not a broadcast
\* axis (a broadcast consumer axis takes the broadcast branch and the
\* offset is not looked at).
C1_ShiftHalo ==
  WalkDone =>
    \A p \in Tvs, c \in ExprIds :
      (ShiftCase(p, c) /\ ~broadcast[c]) =>
        root_axis_map[p] =
          ConstInfo(Max(fusion[c].offset, 0), Max(-fusion[c].offset, 0))

C1_Witness ==
  /\ WalkDone
  /\ \E p \in Tvs, c \in ExprIds :
       ShiftCase(p, c) /\ ~broadcast[c] /\ fusion[c].offset < 0
  /\ \E p \in Tvs, c \in ExprIds :
       ShiftCase(p, c) /\ ~broadcast[c] /\ fusion[c].offset > 0

GatherCase(p, c) ==
  /\ OnlyUse(p, c)
  /\ fusion[c].op = "gather"
  /\ fusion[c].window > 1
  /\ ~hasHalo(root_axis_map[c])

\* a step of the walk that visits a gather with a window larger than one
\* on an axis, and does not fail
GatherStep ==
  /\ pc = "backward"
  /\ pc' # "fatal"
  /\ fusion'[idx].op = "gather"
  /\ fusion'[idx].window > 1

GatherMerged(p, c, hi) ==
  root_axis_map'[p] =
    ConstInfo(Max(value(root_axis_map[p][1]),
                  value(root_axis_map[c][1]) + fusion'[c].pad),
              Max(value(root_axis_map[p][2]), hi))

\* C2 as stated: a gather with window w > 1 and left padding p merges
\* consumer.low + p into the producer's low halo and consumer.high + w - p - 1
\* into its high halo; with no prior halo the producer gets low = p and
\* high = w - p - 1.
C2_Original ==
  /\ [][GatherStep =>
          \A p \in producersOf(fusion', idx) :
            GatherMerged(p, idx, value(root_axis_map[idx][2])
                                   + fusion'[idx].window - fusion'[idx].pad - 1)
       ]_vars
  /\ [](WalkDone =>
          \A p \in Tvs, c \in ExprIds :
            GatherCase(p, c) =>
              root_axis_map[p] =
                ConstInfo(fusion[c].pad, fusion[c].window - fusion[c].pad - 1))

\* C2 amended: on a consumer axis that is not a broadcast axis the merges
\* are as stated, and with no prior halo the producer gets low = p and
\* high = max(w - p - 1, 0).
C2_GatherHalo ==
  /\ [][(GatherStep /\ ~broadcast'[idx]) =>
          \A p \in producersOf(fusion', idx) :
            GatherMerged(p, idx, value(root_axis_map[idx][2])
                                   + fusion'[idx].window - fusion'[idx].pad - 1)
       ]_vars
  /\ [](WalkDone =>
          \A p \in Tvs, c \in ExprIds :
            (GatherCase(p, c) /\ ~broadcast[c]) =>
              root_axis_map[p] =
                ConstInfo(fusion[c].pad,
                          Max(fusion[c].window - fusion[c].pad - 1, 0)))

C2_Witness ==
  /\ WalkDone
  /\ \E p \in Tvs, c \in ExprIds :
       /\ GatherCase(p, c) /\ ~broadcast[c]
       /\ fusion[c].window = 2 /\ fusion[c].pad = 0
       /\ root_axis_map[p] = ConstInfo(0, 1)
  /\ \E p \in Tvs, c \in ExprIds :
       /\ fusion[c].op = "gather" /\ fusion[c].window > 1 /\ ~broadcast[c]
       /\ p \in producersOf(fusion, c)
       /\ hasHalo(root_axis_map[c])

\* C3: after propagateRootAxisInfo has processed a gather whose window size
\* on the axis is 1, the halo recorded for the non-input producer axis is
\* the pointwise max of its previous halo and the consumer axis's halo.
C3_Original ==
  [][(/\ pc = "backward"
      /\ pc' # "fatal"
      /\ fusion'[idx].op = "gather"
      /\ fusion'[idx].window = 1) =>
       \A p \in producersOf(fusion', idx) :
         /\ root_axis_map'[p] =
              ConstInfo(Max(value(root_axis_map[p][1]),
                            value(root_axis_map[idx][1])),
                        Max(value(root_axis_map[p][2]),
                            value(root_axis_map[idx][2])))
         /\ kir_root_axis_map'[p] = root_axis_map'[p]
    ]_vars

ElementwiseUses(p) ==
  /\ ~isFusionInput(p)
  /\ uses(fusion, p) # {}
  /\ \A c \in uses(fusion, p) : fusion[c].op = "other"

\* C4: after the walk, each side of the halo of a non-input producer all of
\* whose uses are elementwise ops is the maximum of that side over the
\* mapped root axes of all its consumers.
C4_MaxOfConsumers ==
  WalkDone =>
    \A p \in Tvs :
      ElementwiseUses(p) =>
        \A pos \in 1 .. 2 :
          root_axis_map[p][pos] =
            Const(MaxOf({ value(root_axis_map[c][pos]) : c \in uses(fusion, p) }))

C4_Witness ==
  /\ WalkDone
  /\ \E p \in Tvs, c, d \in ExprIds :
       /\ ElementwiseUses(p)
       /\ {c, d} \subseteq uses(fusion, p)
       /\ ~hasHalo(root_axis_map[c])
       /\ hasHalo(root_axis_map[d])
       /\ root_axis_map[p] = root_axis_map[d]

\* C5: in every state during and after the walk, the root axis of the fusion
\* input has low halo 0 and high halo 0, in both root axis maps.
C5_InputNoHalo ==
  \A t \in Tvs :
    fusion[t].op = "input" =>
      root_axis_map[t] = AxisHaloInfo /\ kir_root_axis_map[t] = AxisHaloInfo

C5_Witness ==
  /\ WalkDone
  /\ \E c, d, e \in ExprIds :
       /\ fusion[c].op = "shift" /\ fusion[c].offset # 0 /\ ~broadcast[c]
       /\ fusion[d].op = "gather" /\ fusion[d].window > 1 /\ ~broadcast[d]
       /\ fusion[e].op = "other" /\ hasHalo(root_axis_map[e])
       /\ \A x \in {c, d, e} : \E t \in fusion[x].inputs : fusion[t].op = "input"

----------------------------------------------------------------------------
(* AxisHaloInfo::merge on its own: the operands are drawn, the action      *)
(* applies merge to them both ways round and to the first and a zero halo. *)

BuildIdle ==
  /\ fusion = <<>>
  /\ broadcast = <<>>
  /\ root_axis_map = <<>>
  /\ kir_root_axis_map = <<>>
  /\ pc = "idle"
  /\ idx = 0

MergeWidths == { Const(n) : n \in (-1) .. MaxWidth } \cup { Sym(1), Sym(2) }

MergeInfos == { <<lo, hi>> : lo \in MergeWidths, hi \in MergeWidths }

InitMerge ==
  /\ ma \in MergeInfos
  /\ mb \in MergeInfos
  /\ mout = NoEntry
  /\ BuildIdle
  /\ DomainIdle
  /\ LowerIdle

ApplyMerge ==
  /\ mout = NoEntry
  /\ mout' = <<merge(ma, mb), merge(mb, ma), merge(ma, AxisHaloInfo)>>
  /\ UNCHANGED <<fusion, broadcast, root_axis_map, kir_root_axis_map, pc, idx,
                 domVars, ma, mb, lowerVars>>

NextMerge == ApplyMerge

SpecMerge == InitMerge /\ [][NextMerge]_vars

ConstNonNeg(info) ==
  \A pos \in 1 .. 2 : isConst(info[pos]) /\ value(info[pos]) >= 0

\* C6: for halo widths a and b whose components are non-negative constants,
\* merge(a, zero) = a, merge(a, b) = merge(b, a), and each side of merge(a, b)
\* is the larger of the two operands' widths on that side, so it is below
\* neither.
C6_MergeIsMax ==
  (mout # NoEntry /\ ConstNonNeg(ma) /\ ConstNonNeg(mb)) =>
    /\ mout[3] = ma
    /\ mout[1] = mout[2]
    /\ \A pos \in 1 .. 2 :
         /\ isConst(mout[1][pos])
         /\ value(mout[1][pos]) >= value(ma[pos])
         /\ value(mout[1][pos]) >= value(mb[pos])
         /\ value(mout[1][pos]) \in {value(ma[pos]), value(mb[pos])}

C6_Witness ==
  /\ mout # NoEntry
  /\ ConstNonNeg(ma) /\ ConstNonNeg(mb)
  /\ value(ma[1]) > value(mb[1]) /\ value(mb[1]) > 0
  /\ value(ma[2]) < value(mb[2]) /\ value(ma[2]) > 0

----------------------------------------------------------------------------
(* Tensor domains.  Two tensors carry the same split/merge expressions     *)
(* over NumRoots root axes each, as the replay of one tensor's schedule on *)
(* the other leaves them; an axis is <<tensor, position>>, the roots are   *)
(* positions 1 .. NumRoots and every expression output takes the next free *)
(* position.  The expressions are drawn while the domain of the first      *)
(* tensor is walked and are replayed for the second.                       *)

DomTvs == {1, 2}
Roots == 1 .. NumRoots
Positions == 1 .. (NumRoots + 2 * MaxExprs)
Keys == DomTvs \X Positions
RootKeys == DomTvs \X Roots

\* the halo of a root axis after the backward walk: none, or h on both sides
RootInfos == { <<Const(h), Const(h)>> : h \in 0 .. MaxHalo }

RootAxis == [kind |-> "root", in |-> 0, outer |-> 0, inner |-> 0, out |-> 0]

Split(in, outer, inner) ==
  [kind |-> "split", in |-> in, outer |-> outer, inner |-> inner, out |-> 0]

Merge(outer, inner, out) ==
  [kind |-> "merge", in |-> 0, outer |-> outer, inner |-> inner, out |-> out]

Outputs(e) == IF e.kind = "split" THEN {e.outer, e.inner} ELSE {e.out}
Inputs(e) == IF e.kind = "split" THEN {e.in} ELSE {e.outer, e.inner}

Produced(sh) == UNION { Outputs(sh[k]) : k \in 1 .. Len(sh) }
Consumed(sh) == UNION { Inputs(sh[k]) : k \in 1 .. Len(sh) }

\* the positions that hold an axis, and TensorDomain::domain()
AxesOf(sh) == Roots \cup Produced(sh)
Leaves(sh) == AxesOf(sh) \ Consumed(sh)

NextPos(sh) == NumRoots + Cardinality(Produced(sh)) + 1

\* IterDomain::definition
definition(sh, pos) ==
  IF \E k \in 1 .. Len(sh) : pos \in Outputs(sh[k])
    THEN sh[CHOOSE k \in 1 .. Len(sh) : pos \in Outputs(sh[k])]
    ELSE RootAxis

\* the expressions that can extend a domain
Candidates(sh) ==
  LET n == NextPos(sh)
  IN { Split(in, n, n + 1) : in \in Leaves(sh) }
     \cup { Merge(q[1], q[2], n) :
              q \in { r \in Leaves(sh) \X Leaves(sh) : r[1] # r[2] } }

\* HaloInfo::getExtent / hasHaloWidth / getHaloWidth
getExtent(ext, id) == ext[id]
hasHaloWidth(hw, id) == hw[id] # NoEntry
getHaloWidth(hw, id) == hw[id]

----------------------------------------------------------------------------
(* HaloInfo::build(TensorDomain* td), the loop over the expressions        *)

\* a split with no assertion on its input
splitAssertsNone(hw, merged, t, e) == TRUE

\* the two assertions on the input of a split
splitAsserts(hw, merged, t, e) ==
  /\ e.in \notin merged
  /\ hasHaloWidth(hw, <<t, e.in>>)

\* a split that hands the halo to the outer output
splitMapsOuter(hw, ext, t, e) ==
  LET halo_width == getHaloWidth(hw, <<t, e.in>>)
  IN IF isZeroInt(halo_width)
       THEN [hw |-> [hw EXCEPT ![<<t, e.outer>>] = halo_width,
                               ![<<t, e.inner>>] = halo_width],
             ext |-> ext]
       ELSE [hw |-> [hw EXCEPT ![<<t, e.outer>>] = halo_width,
                               ![<<t, e.inner>>] = zeroVal],
             ext |-> [ext EXCEPT ![<<t, e.outer>>] =
                        plainAddExpr(Extent(<<t, e.outer>>), halo_width)]]

\* the maps after a split whose assertions hold
splitMaps(hw, ext, t, e) ==
  LET halo_width == getHaloWidth(hw, <<t, e.in>>)
  IN IF isZeroInt(halo_width)
       THEN [hw |-> [hw EXCEPT ![<<t, e.outer>>] = halo_width,
                               ![<<t, e.inner>>] = halo_width],
             ext |-> ext]
       ELSE [hw |-> [hw EXCEPT ![<<t, e.outer>>] = zeroVal,
                               ![<<t, e.inner>>] = halo_width],
             ext |-> [ext EXCEPT ![<<t, e.inner>>] =
                        plainAddExpr(Extent(<<t, e.inner>>), halo_width)]]

\* a merge that gives every output the scalar width zero
mergeMapsWithWidth(hw, ext, merged, t, e) ==
  LET inner_extent == getExtent(ext, <<t, e.inner>>)
      outer_extent == getExtent(ext, <<t, e.outer>>)
      inner_or_raw == IF inner_extent = NoEntry
                        THEN Extent(<<t, e.inner>>) ELSE inner_extent
      outer_or_raw == IF outer_extent = NoEntry
                        THEN Extent(<<t, e.outer>>) ELSE outer_extent
  IN IF inner_extent # NoEntry \/ outer_extent # NoEntry
       THEN [hw |-> [hw EXCEPT ![<<t, e.out>>] = zeroVal],
             ext |-> [ext EXCEPT ![<<t, e.out>>] =
                        mulExpr(outer_or_raw, inner_or_raw)],
             merged |-> merged \cup {e.out}]
       ELSE [hw |-> [hw EXCEPT ![<<t, e.out>>] = zeroVal],
             ext |-> ext,
             merged |-> merged]

\* the maps and merged_shifted_ids after a merge
mergeMaps(hw, ext, merged, t, e) ==
  LET inner_extent == getExtent(ext, <<t, e.inner>>)
      outer_extent == getExtent(ext, <<t, e.outer>>)
      inner_or_raw == IF inner_extent = NoEntry
                        THEN Extent(<<t, e.inner>>) ELSE inner_extent
      outer_or_raw == IF outer_extent = NoEntry
                        THEN Extent(<<t, e.outer>>) ELSE outer_extent
  IN IF inner_extent # NoEntry \/ outer_extent # NoEntry
       THEN [hw |-> hw,
             ext |-> [ext EXCEPT ![<<t, e.out>>] =
                        mulExpr(outer_or_raw, inner_or_raw)],
             merged |-> merged \cup {e.out}]
       ELSE [hw |-> [hw EXCEPT ![<<t, e.out>>] = zeroVal],
             ext |-> ext,
             merged |-> merged]

InitDomain ==
  /\ root_axis_map \in [RootKeys -> RootInfos]
  /\ kir_root_axis_map = root_axis_map
  /\ fusion = <<>>
  /\ broadcast = <<>>
  /\ halo_width_map = [k \in Keys |-> NoEntry]
  /\ kir_extent_map = [k \in Keys |-> NoEntry]
  /\ shape = <<>>
  /\ td = 1
  /\ merged_shifted_ids = {}
  /\ cmp = NoEntry
  /\ pc = "roots"
  /\ idx = 0
  /\ MergeIdle
  /\ LowerIdle

\* the loop over td->getRootDomain()
BuildRoots ==
  /\ pc = "roots"
  /\ IF \A r \in Roots : ~hasHaloWidth(halo_width_map, <<td, r>>)
       THEN /\ halo_width_map' =
                 [k \in Keys |->
                    IF k[1] = td /\ k[2] \in Roots
                      THEN rootHaloWidth(root_axis_map[k])
                      ELSE halo_width_map[k]]
            /\ kir_extent_map' =
                 [k \in Keys |->
                    IF k[1] = td /\ k[2] \in Roots
                      THEN rootExtent(root_axis_map[k], k)
                      ELSE kir_extent_map[k]]
            /\ pc' = "exprs"
            /\ idx' = 1
       ELSE /\ pc' = "fatal"
            /\ UNCHANGED <<halo_width_map, kir_extent_map, idx>>
  /\ merged_shifted_ids' = {}
  /\ UNCHANGED <<fusion, broadcast, root_axis_map, kir_root_axis_map,
                 shape, td, cmp, mergeVars, lowerVars>>

\* the expression the walk visits next: the next one of the domain, which
\* is drawn now if it has not been drawn yet
Visit(e) ==
  /\ pc = "exprs"
  /\ IF idx <= Len(shape)
       THEN e = shape[idx] /\ shape' = shape
       ELSE /\ td = 1
            /\ Len(shape) < MaxExprs
            /\ e \in Candidates(shape)
            /\ shape' = Append(shape, e)

SplitStep ==
  \E e \in Candidates(shape) \cup { shape[k] : k \in 1 .. Len(shape) } :
    /\ Visit(e)
    /\ e.kind = "split"
    /\ IF splitAsserts(halo_width_map, merged_shifted_ids, td, e)
         THEN LET r == splitMaps(halo_width_map, kir_extent_map, td, e)
              IN /\ halo_width_map' = r.hw
                 /\ kir_extent_map' = r.ext
                 /\ pc' = "exprs"
                 /\ idx' = idx + 1
         ELSE /\ pc' = "fatal"
              /\ UNCHANGED <<halo_width_map, kir_extent_map, idx>>
    /\ UNCHANGED <<fusion, broadcast, root_axis_map, kir_root_axis_map,
                   td, merged_shifted_ids, cmp, mergeVars, lowerVars>>

MergeStep ==
  \E e \in Candidates(shape) \cup { shape[k] : k \in 1 .. Len(shape) } :
    /\ Visit(e)
    /\ e.kind = "merge"
    /\ LET r == mergeMaps(halo_width_map, kir_extent_map, merged_shifted_ids,
                          td, e)
       IN /\ halo_width_map' = r.hw
          /\ kir_extent_map' = r.ext
          /\ merged_shifted_ids' = r.merged
    /\ pc' = "exprs"
    /\ idx' = idx + 1
    /\ UNCHANGED <<fusion, broadcast, root_axis_map, kir_root_axis_map,
                   td, cmp, mergeVars, lowerVars>>

\* build(td) returns: "for (auto tv : tvs) build(tv->domain())" goes on to
\* the next tensor
EndBuild ==
  /\ pc = "exprs"
  /\ idx > Len(shape)
  /\ IF td = 1
       THEN td' = 2 /\ pc' = "roots" /\ idx' = 0
       ELSE td' = 3 /\ pc' = "done" /\ idx' = 0
  /\ UNCHANGED <<fusion, broadcast, root_axis_map, kir_root_axis_map,
                 halo_width_map, kir_extent_map, shape, merged_shifted_ids,
                 cmp, mergeVars, lowerVars>>

----------------------------------------------------------------------------
(* The extent comparators                                                  *)

\* ComputeAtMap::areMapped of the loop map: the two tensors carry the same
\* expressions, and axes at the same position are mapped
areMapped(id1, id2) == id1[2] = id2[2]

\* "x == y" on kir::Int pointers: a named scalar is one object; constants
\* and expression nodes are built anew by every builder call
samePointer(x, y) == x = y /\ x[1] = "sym"

isBinaryOp(x) == x[1] \in {"add", "sub", "mul", "max"}

\* a comparison by "<" in place of "<="
cmpLessEqualStrict(x, y) ==
  \/ samePointer(x, y)
  \/ isConst(x) /\ isConst(y) /\ value(x) < value(y)

\* the lambda cmp of HaloInfo::extentLessEqual
cmpLessEqual(x, y) ==
  \/ samePointer(x, y)
  \/ isConst(x) /\ isConst(y) /\ value(x) <= value(y)

\* the lambda cmp of HaloInfo::extentEqual
RECURSIVE cmpEqual(_, _)
cmpEqual(x, y) ==
  \/ samePointer(x, y)
  \/ isConst(x) /\ isConst(y) /\ value(x) = value(y)
  \/ /\ isBinaryOp(x) /\ isBinaryOp(y) /\ x[1] = y[1]
     /\ cmpEqual(x[2], y[2])
     /\ cmpEqual(x[3], y[3])

applyCmp(kind, x, y) ==
  IF kind = "equal"
    THEN (IF cmpEqual(x, y) THEN "true" ELSE "false")
    ELSE (IF cmpLessEqual(x, y) THEN "true" ELSE "false")

\* the assertions of extentCompare, with no check of the loop map
compareCaseUnmapped(hw, sh, id1, id2) ==
  IF hasHaloWidth(hw, id1)
    THEN (IF hasHaloWidth(hw, id2) THEN "widths" ELSE "fatal")
  ELSE IF hasHaloWidth(hw, id2) THEN "fatal"
  ELSE IF definition(sh, id1[2]).kind = "merge"
    THEN (IF definition(sh, id2[2]).kind = "merge" THEN "merges" ELSE "fatal")
  ELSE "fatal"

\* the assertions of extentCompare: which branch the call takes
compareCase(hw, sh, id1, id2) ==
  IF ~areMapped(id1, id2) THEN "fatal"
  ELSE IF hasHaloWidth(hw, id1)
    THEN (IF hasHaloWidth(hw, id2) THEN "widths" ELSE "fatal")
  ELSE IF hasHaloWidth(hw, id2) THEN "fatal"
  ELSE IF definition(sh, id1[2]).kind = "merge"
    THEN (IF definition(sh, id2[2]).kind = "merge" THEN "merges" ELSE "fatal")
  ELSE "fatal"

\* "return inner_le && outer_le" with only the inner operands compared
bothHoldInnerOnly(inner_le, outer_le) == inner_le

\* "return inner_le && outer_le"
bothHold(inner_le, outer_le) ==
  IF inner_le = "true" /\ outer_le = "true" THEN "true" ELSE "false"

\* extentCompare: "true", "false", or "fatal" when an assertion fails
RECURSIVE extentCompare(_, _, _, _, _)
extentCompare(hw, sh, id1, id2, kind) ==
  LET c == compareCase(hw, sh, id1, id2)
  IN IF c = "fatal" THEN "fatal"
     ELSE IF c = "widths"
       THEN applyCmp(kind, getHaloWidth(hw, id1), getHaloWidth(hw, id2))
     ELSE LET merge1 == definition(sh, id1[2])
              merge2 == definition(sh, id2[2])
              inner_le == extentCompare(hw, sh, <<id1[1], merge1.inner>>,
                                        <<id2[1], merge2.inner>>, kind)
          IN IF inner_le = "fatal" THEN "fatal"
             ELSE LET outer_le ==
                        extentCompare(hw, sh, <<id1[1], merge1.outer>>,
                                      <<id2[1], merge2.outer>>, kind)
                  IN IF outer_le = "fatal" THEN "fatal"
                     ELSE bothHold(inner_le, outer_le)

\* HaloInfo::extentLessEqual / HaloInfo::extentEqual
extentLessEqual(hw, sh, id1, id2) == extentCompare(hw, sh, id1, id2, "lessEqual")
extentEqual(hw, sh, id1, id2) == extentCompare(hw, sh, id1, id2, "equal")

\* a call of one of the two comparators on an axis of the first and an axis
\* of the second tensor, before or after a call of build(td)
Compare ==
  /\ pc \in {"roots", "done"}
  /\ \E p1 \in AxesOf(shape), p2 \in AxesOf(shape),
        kind \in {"lessEqual", "equal"} :
       cmp' = [kind |-> kind, id1 |-> <<1, p1>>, id2 |-> <<2, p2>>,
               result |-> IF kind = "equal"
                            THEN extentEqual(halo_width_map, shape,
                                             <<1, p1>>, <<2, p2>>)
                            ELSE extentLessEqual(halo_width_map, shape,
                                                 <<1, p1>>, <<2, p2>>)]
  /\ pc' = "compared"
  /\ UNCHANGED <<fusion, broadcast, root_axis_map, kir_root_axis_map, idx,
                 halo_width_map, kir_extent_map, shape, td,
                 merged_shifted_ids, mergeVars, lowerVars>>

NextDomain == BuildRoots \/ SplitStep \/ MergeStep \/ EndBuild \/ Compare

SpecDomain == InitDomain /\ [][NextDomain]_vars

----------------------------------------------------------------------------
(* Properties of the forward propagation and of the comparators            *)

\* build(td) of tensor t has visited expression k of the domain
Visited(t, k) == t < td \/ (t = td /\ k < idx)

SplitOutcome(t, e) ==
  LET w == halo_width_map[<<t, e.in>>]
  IN IF isZeroInt(w)
       THEN /\ halo_width_map[<<t, e.outer>>] = Const(0)
            /\ halo_width_map[<<t, e.inner>>] = Const(0)
            /\ kir_extent_map[<<t, e.outer>>] = NoEntry
            /\ kir_extent_map[<<t, e.inner>>] = NoEntry
       ELSE /\ halo_width_map[<<t, e.outer>>] = Const(0)
            /\ kir_extent_map[<<t, e.outer>>] = NoEntry
            /\ halo_width_map[<<t, e.inner>>] = w
            /\ kir_extent_map[<<t, e.inner>>] = <<"add", Extent(<<t, e.inner>>), w>>

\* C7: after a split, if the input's combined halo width is zero both
\* outputs have scalar halo width zero and no extended-extent entry;
\* otherwise the outer has width zero and no entry, and the inner has the
\* input's width and the extended extent "inner's raw extent + that width".
C7_SplitHalo ==
  \A t \in DomTvs, k \in 1 .. Len(shape) :
    (Visited(t, k) /\ shape[k].kind = "split") => SplitOutcome(t, shape[k])

C7_Witness ==
  \E t \in DomTvs, k \in 1 .. Len(shape), j \in 1 .. Len(shape) :
    /\ Visited(t, k) /\ shape[k].kind = "split"
    /\ ~isZeroInt(halo_width_map[<<t, shape[k].in>>])
    /\ Visited(t, j) /\ shape[j].kind = "split"
    /\ isZeroInt(halo_width_map[<<t, shape[j].in>>])

\* the axis is the output of a merge, and some / no input of that merge has
\* an extended-extent entry
HaloMergeOutput(t, pos) ==
  LET m == definition(shape', pos)
  IN /\ m.kind = "merge"
     /\ \/ kir_extent_map[<<t, m.outer>>] # NoEntry
        \/ kir_extent_map[<<t, m.inner>>] # NoEntry

PlainMergeOutput(t, pos) ==
  LET m == definition(shape', pos)
  IN /\ m.kind = "merge"
     /\ kir_extent_map[<<t, m.outer>>] = NoEntry
     /\ kir_extent_map[<<t, m.inner>>] = NoEntry

\* a step of build(td) that visits a split
SplitVisit ==
  /\ pc = "exprs"
  /\ idx <= Len(shape')
  /\ shape'[idx].kind = "split"
  /\ (pc' = "fatal" \/ idx' = idx + 1)

\* C8: a split of the output of a merge with an input that had an
\* extended-extent entry ends build in a fatal assertion; a split of the
\* output of a merge of two non-extended axes succeeds and gives both
\* outputs halo width zero.
C8_ResplitRejected ==
  [][SplitVisit =>
       LET e == shape'[idx]
       IN /\ HaloMergeOutput(td, e.in) => pc' = "fatal"
          /\ PlainMergeOutput(td, e.in) =>
               /\ pc' = "exprs"
               /\ halo_width_map'[<<td, e.outer>>] = Const(0)
               /\ halo_width_map'[<<td, e.inner>>] = Const(0)
    ]_vars

\* the second tensor fails on the split that the first tensor passed
C8_Witness ==
  /\ pc = "fatal"
  /\ td = 2
  /\ idx <= Len(shape)
  /\ shape[idx].kind = "split"
  /\ definition(shape, shape[idx].in).kind = "merge"
  /\ kir_extent_map[<<2, shape[idx].in>>] # NoEntry
  /\ kir_extent_map[<<1, shape[idx].in>>] = NoEntry
  /\ halo_width_map[<<1, shape[idx].outer>>] = Const(0)

Called == pc = "compared"

ConstWidth(id) ==
  hasHaloWidth(halo_width_map, id) /\ isConst(halo_width_map[id])

\* the axis has no scalar halo width and is the output of a merge
WidthlessMerge(id) ==
  /\ ~hasHaloWidth(halo_width_map, id)
  /\ definition(shape, id[2]).kind = "merge"

\* the pairs of axes a comparison of id1 and id2 gets to: the two axes, or
\* the pairs their merge operands get to
RECURSIVE ComparedPairs(_, _)
ComparedPairs(id1, id2) ==
  IF areMapped(id1, id2) /\ WidthlessMerge(id1) /\ WidthlessMerge(id2)
    THEN LET m1 == definition(shape, id1[2])
             m2 == definition(shape, id2[2])
         IN ComparedPairs(<<id1[1], m1.outer>>, <<id2[1], m2.outer>>)
            \cup ComparedPairs(<<id1[1], m1.inner>>, <<id2[1], m2.inner>>)
    ELSE {<<id1, id2>>}

EqualConstants(q) ==
  /\ areMapped(q[1], q[2])
  /\ ConstWidth(q[1]) /\ ConstWidth(q[2])
  /\ value(halo_width_map[q[1]]) = value(halo_width_map[q[2]])

DifferentConstants(q) ==
  /\ ConstWidth(q[1]) /\ ConstWidth(q[2])
  /\ value(halo_width_map[q[1]]) # value(halo_width_map[q[2]])

\* C9: on two loop-mapped axes with constant scalar halo widths extentEqual
\* returns true iff the constants are equal; on two loop-mapped halo-merge
\* outputs it returns true iff it does so on the outer and on the inner
\* operand pair, recursively; it never returns true when a compared pair
\* has differing constant widths.
C9_EqualSound ==
  (Called /\ cmp.kind = "equal") =>
    /\ (areMapped(cmp.id1, cmp.id2) /\ ConstWidth(cmp.id1) /\ ConstWidth(cmp.id2))
         => cmp.result = (IF EqualConstants(<<cmp.id1, cmp.id2>>)
                            THEN "true" ELSE "false")
    /\ (areMapped(cmp.id1, cmp.id2) /\ WidthlessMerge(cmp.id1)
          /\ WidthlessMerge(cmp.id2))
         => (cmp.result = "true" <=>
               \A q \in ComparedPairs(cmp.id1, cmp.id2) : EqualConstants(q))
    /\ cmp.result = "true" =>
         \A q \in ComparedPairs(cmp.id1, cmp.id2) : ~DifferentConstants(q)

\* extentEqual returned true on two halo-merge outputs one of whose operands
\* is a halo-merge output again
C9_Witness ==
  /\ Called /\ cmp.kind = "equal" /\ cmp.result = "true"
  /\ WidthlessMerge(cmp.id1) /\ WidthlessMerge(cmp.id2)
  /\ \E q \in ComparedPairs(cmp.id1, cmp.id2) :
       value(halo_width_map[q[1]]) > 0
  /\ LET m == definition(shape, cmp.id1[2])
     IN WidthlessMerge(<<1, m.inner>>) \/ WidthlessMerge(<<1, m.outer>>)

PreconditionBroken(id1, id2) ==
  \/ ~areMapped(id1, id2)
  \/ hasHaloWidth(halo_width_map, id1) # hasHaloWidth(halo_width_map, id2)
  \/ /\ ~hasHaloWidth(halo_width_map, id1)
     /\ ~hasHaloWidth(halo_width_map, id2)
     /\ \/ definition(shape, id1[2]).kind # "merge"
        \/ definition(shape, id2[2]).kind # "merge"

\* C10: extentLessEqual / extentEqual on two axes that are not loop-mapped,
\* or of which exactly one has a scalar halo width, or of which neither has
\* one and one is not defined by a merge, ends in a fatal assertion.
C10_PreconditionsFatal ==
  (Called /\ PreconditionBroken(cmp.id1, cmp.id2)) => cmp.result = "fatal"

\* both domains are built; the axis of the first tensor is a halo-merge
\* output, the mapped axis of the second has a scalar halo width
C10_Witness ==
  /\ Called
  /\ td = 3
  /\ areMapped(cmp.id1, cmp.id2)
  /\ ~hasHaloWidth(halo_width_map, cmp.id1)
  /\ hasHaloWidth(halo_width_map, cmp.id2)
  /\ cmp.result = "fatal"

----------------------------------------------------------------------------
(* HaloInfo::build(Fusion* fusion) as a whole, on a fusion of unscheduled  *)
(* one-dimensional tensors T0 .. T(NumUsedTvs-1): the backward walk, then  *)
(* build(tv->domain()) for every tensor, then validate(tv) for every       *)
(* tensor.  The only axis of a tensor is its root axis and its leaf axis.  *)

NumUsedTvs == 4

UsedTvs == 0 .. (NumUsedTvs - 1)

axisOf(t) == <<t, 1>>

UsedKeys == { axisOf(t) : t \in UsedTvs }

MemoryTypes == {"Local", "Shared", "Global"}

ParallelTypes == {"Serial", "TIDx", "BIDx", "Vectorize"}

isParallelTypeThreadDim(ptype) == ptype = "TIDx"
isParallelTypeBlockDim(ptype) == ptype = "BIDx"
isParallelTypeThread(ptype) ==
  isParallelTypeThreadDim(ptype) \/ isParallelTypeBlockDim(ptype)

\* the loop over tv->uses(): "yes" when shared_mem_needed is set, "no" when
\* the loop ends without, "fatal" when a comparison asserts.  c is the next
\* expression to look at, mapped the uses whose output has a loop-mapped axis
RECURSIVE sharedMemNeeded(_, _, _, _, _)
sharedMemNeeded(hw, f, t, mapped, c) ==
  IF c > NumTvs - 1 THEN "no"
  ELSE IF c \notin uses(f, t) THEN sharedMemNeeded(hw, f, t, mapped, c + 1)
  ELSE IF f[c].op \in {"shift", "gather"} THEN "yes"
  ELSE IF c \notin mapped THEN sharedMemNeeded(hw, f, t, mapped, c + 1)
  ELSE LET eq == extentEqual(hw, <<>>, axisOf(t), axisOf(c))
       IN IF eq = "fatal" THEN "fatal"
          ELSE IF eq = "false" THEN "yes"
          ELSE sharedMemNeeded(hw, f, t, mapped, c + 1)

\* any memory type passes for a halo-extended axis on a thread dimension
memoryOkAny(mem_type) == TRUE

\* "mem_type == MemoryType::Shared"
memoryOk(mem_type) == mem_type = "Shared"

\* block-level parallelization is let through
rejectsBlockNever(ptype) == FALSE

\* "else if (isParallelTypeBlockDim(ptype)) TORCH_CHECK(false, ...)"
rejectsBlock(ptype) == isParallelTypeBlockDim(ptype)

\* HaloInfo::validate(tv) for the axis of tensor t: "pass", or the check
\* that failed
validate(hw, ext, f, t, mem_type, ptype, concrete, mapped) ==
  IF extentEqual(hw, <<>>, axisOf(t), axisOf(concrete)) # "true"
    THEN "assert"
  ELSE IF getExtent(ext, axisOf(t)) = NoEntry THEN "pass"
  ELSE IF ptype = "Serial" THEN "pass"
  ELSE IF ~isParallelTypeThread(ptype) THEN "unsupported"
  ELSE LET needed == sharedMemNeeded(hw, f, t, mapped, 1)
       IN IF needed = "fatal" THEN "assert"
          ELSE IF needed = "no" THEN "pass"
          ELSE IF isParallelTypeThreadDim(ptype)
            THEN IF memoryOk(mem_type) THEN "pass" ELSE "shared"
          ELSE IF rejectsBlock(ptype) THEN "block"
          ELSE "pass"

\* the expressions of a fusion without broadcast axes and without padding
ConcreteExprs(t) == { e \in Exprs(t) : e.pad = 0 }

BackwardConcrete == Walk(ConcreteExprs(idx), {FALSE})

InitBuild ==
  /\ fusion = [t \in Tvs |-> IF t = 0 THEN InputTv ELSE Unvisited]
  /\ broadcast = [t \in ExprIds |-> FALSE]
  /\ root_axis_map = [t \in Tvs |-> AxisHaloInfo]
  /\ kir_root_axis_map = [t \in Tvs |-> AxisHaloInfo]
  /\ pc = "backward"
  /\ idx = NumUsedTvs - 1
  /\ halo_width_map = [k \in UsedKeys |-> NoEntry]
  /\ kir_extent_map = [k \in UsedKeys |-> NoEntry]
  /\ shape = <<>>
  /\ td = 0
  /\ merged_shifted_ids = {}
  /\ cmp = NoEntry
  /\ MergeIdle
  /\ LowerIdle

\* one iteration of "for (auto tv : tvs) build(tv->domain())"
Forward ==
  /\ pc = "forward"
  /\ IF ~hasHaloWidth(halo_width_map, axisOf(idx))
       THEN /\ halo_width_map' =
                 [halo_width_map EXCEPT
                    ![axisOf(idx)] = rootHaloWidth(root_axis_map[idx])]
            /\ kir_extent_map' =
                 [kir_extent_map EXCEPT
                    ![axisOf(idx)] =
                       rootExtent(root_axis_map[idx], axisOf(idx))]
            /\ IF idx < NumUsedTvs - 1
                 THEN pc' = "forward" /\ idx' = idx + 1
                 ELSE pc' = "validate" /\ idx' = 0
       ELSE /\ pc' = "fatal"
            /\ UNCHANGED <<halo_width_map, kir_extent_map, idx>>
  /\ UNCHANGED <<fusion, broadcast, root_axis_map, kir_root_axis_map,
                 shape, td, merged_shifted_ids, cmp, mergeVars, lowerVars>>

\* one iteration of "for (auto tv : tvs) validate(tv)"
Validate ==
  /\ pc = "validate"
  /\ \E mem_type \in MemoryTypes, ptype \in ParallelTypes,
        concrete \in {idx} \cup uses(fusion, idx),
        mapped \in SUBSET { c \in uses(fusion, idx) : fusion[c].op = "other" } :
       LET out == validate(halo_width_map, kir_extent_map, fusion, idx,
                           mem_type, ptype, concrete, mapped)
       IN /\ val' = [tv |-> idx, mem |-> mem_type, ptype |-> ptype,
                     concrete |-> concrete, mapped |-> mapped,
                     outcome |-> out]
          /\ IF out = "pass"
               THEN IF idx < NumUsedTvs - 1
                      THEN pc' = "validate" /\ idx' = idx + 1
                      ELSE pc' = "done" /\ idx' = idx
               ELSE /\ pc' = IF out = "assert" THEN "fatal" ELSE "rejected"
                    /\ idx' = idx
  /\ UNCHANGED <<fusion, broadcast, root_axis_map, kir_root_axis_map,
                 domVars, mergeVars, expr, out_tv, scope, generated>>

NextBuild == BackwardConcrete \/ Forward \/ Validate

SpecBuild == InitBuild /\ [][NextBuild]_vars

----------------------------------------------------------------------------
(* Properties of validate and of the order of the phases of build          *)

Validated == val.outcome # "none"

\* the axis of the validated tensor has an extended-extent entry
HaloExtended == kir_extent_map[axisOf(val.tv)] # NoEntry

\* some use is a shift or a gather, or the loop-mapped axis of some use's
\* output is not proven to have the same extent
SharedVisibility ==
  \E c \in uses(fusion, val.tv) :
    \/ fusion[c].op \in {"shift", "gather"}
    \/ /\ c \in val.mapped
       /\ halo_width_map[axisOf(c)] # halo_width_map[axisOf(val.tv)]

\* the assertion on the concrete axis held, so that validate got to the
\* checks on parallelization
ChecksReached == Validated /\ val.outcome # "assert"

\* C11 as claimed: validate fails for every tensor with a halo-extended
\* axis on a block dimension, whatever its memory type and its uses.
C11_Original ==
  (Validated /\ HaloExtended /\ val.ptype = "BIDx") => val.outcome # "pass"

\* C11: for a tensor with a halo-extended axis on a block dimension,
\* whatever its memory type, validate fails with the block-parallelization
\* error when some use requires shared visibility, and passes when none does.
C11_BlockRejected ==
  (ChecksReached /\ HaloExtended /\ val.ptype = "BIDx") =>
    val.outcome = (IF SharedVisibility THEN "block" ELSE "pass")

\* block-parallel halo-extended axes of a tensor in shared memory: one is
\* rejected, and one is used by an elementwise op only and passes
C11_Witness ==
  /\ Validated /\ HaloExtended /\ val.ptype = "BIDx"
  /\ val.outcome = "block"
  /\ val.mem = "Shared"
  /\ \E c \in uses(fusion, val.tv) : fusion[c].op = "other" /\ c \in val.mapped

\* C12: a tensor with a halo-extended axis on a thread dimension is rejected
\* iff some use requires shared visibility and its memory type is not
\* Shared; on a serial axis, or when no use requires shared visibility,
\* no memory type is rejected.
C12_ThreadNeedsShared ==
  (ChecksReached /\ HaloExtended) =>
    /\ val.ptype = "TIDx" =>
         val.outcome = (IF SharedVisibility /\ val.mem # "Shared"
                          THEN "shared" ELSE "pass")
    /\ val.ptype = "Serial" => val.outcome = "pass"
    /\ ~SharedVisibility => val.outcome \in {"pass", "unsupported"}

\* rejected for its memory type; one of the uses is an elementwise op whose
\* output axis is loop-mapped and has a different extent
C12_Witness ==
  /\ Validated /\ HaloExtended /\ val.ptype = "TIDx"
  /\ val.outcome = "shared"
  /\ val.mem = "Global"
  /\ \E c \in val.mapped :
       halo_width_map[axisOf(c)] # halo_width_map[axisOf(val.tv)]

\* steps of the three phases
BackwardStep == root_axis_map' # root_axis_map
ForwardStep == halo_width_map' # halo_width_map
ValidateStep == val' # val

BackwardFinished == \A t \in 1 .. (NumUsedTvs - 1) : fusion[t].op # "unvisited"
ForwardBegun == \E t \in UsedTvs : hasHaloWidth(halo_width_map, axisOf(t))
ForwardFinished == \A t \in UsedTvs : hasHaloWidth(halo_width_map, axisOf(t))

\* C16: no step of the forward propagation happens before the backward walk
\* has processed every expression, no validate step before the forward
\* propagation has finished for every tensor, and no root-axis halo width
\* changes once the forward propagation has begun.
C16_PhaseOrder ==
  [][/\ ForwardStep => BackwardFinished
     /\ ValidateStep => ForwardFinished
     /\ ForwardBegun => ~BackwardStep]_vars

\* build has validated its last tensor, and a root axis has halo
C16_Witness ==
  /\ pc = "done"
  /\ val.tv = NumUsedTvs - 1
  /\ \E t \in UsedTvs : hasHalo(root_axis_map[t])

----------------------------------------------------------------------------
(* ShiftPredicateInserter.  The expression expr writes the tensor out_tv,  *)
(* whose root axes are 1 .. rootSize; root_axis_map holds their halo.  The *)
(* output of a gather has the gathered axes first and one window axis for  *)
(* each of them after these; windowShape has one entry per gathered axis.  *)

NumAxes == 2       \* root axes of the output of a shift or elementwise op
MaxShift == 2      \* shift offsets of the lowered expression
MaxBody == 2       \* entries of the innermost loop body

Axes == 1 .. NumAxes
NumGathered == NumAxes \div 2

Halos == { <<Const(lo), Const(hi)>> : lo \in 0 .. MaxHalo, hi \in 0 .. MaxHalo }

ShiftExprs ==
  { [op |-> "shift", offset |-> o, pad |-> pd, window |-> <<>>, padw |-> <<>>,
     sync |-> FALSE, predicate |-> NoEntry] :
      o \in [Axes -> (-MaxShift) .. MaxShift], pd \in BOOLEAN }

GatherExprs ==
  { [op |-> "gather", offset |-> [i \in 1 .. 2 * NumGathered |-> 0],
     pad |-> FALSE, window |-> w, padw |-> pw,
     sync |-> FALSE, predicate |-> NoEntry] :
      w \in [1 .. NumGathered -> 1 .. MaxWindow],
      pw \in [1 .. NumGathered -> 0 .. 1] }

OtherExprs ==
  { [op |-> "other", offset |-> [i \in Axes |-> 0], pad |-> FALSE,
     window |-> <<>>, padw |-> <<>>, sync |-> sy, predicate |-> NoEntry] :
      sy \in BOOLEAN }

\* the size of the root domain of the output
rootSize(e) == Len(e.offset)

\* kinds of root axes: a broadcast, reduction or trivial-reduction axis has
\* no consumer that gives it halo, and only an elementwise or reduction op
\* has reduction axes
AxisKinds(e) ==
  IF e.op = "other" THEN {"iter", "broadcast", "reduction", "trivial"}
  ELSE {"iter", "broadcast"}

Tensors(e) ==
  { [kinds |-> k, mem |-> mt] :
      k \in [1 .. rootSize(e) -> AxisKinds(e)], mt \in {"Local", "Global"} }

AxisInfos(e, tv) ==
  { h \in [1 .. rootSize(e) -> Halos] :
      \A i \in 1 .. rootSize(e) : tv.kinds[i] # "iter" => ~hasHalo(h[i]) }

isBroadcast(tv, i) == tv.kinds[i] = "broadcast"
isReduction(tv, i) == tv.kinds[i] \in {"reduction", "trivial"}
isDerived(tv, i) == tv.kinds[i] = "trivial"

\* HaloInfo::needsShiftPredicate from root axis i on: the set of outcomes.
\* windowShape()[i] past the end of the vector is an out-of-bounds read:
\* the call crashes, or the value read counts as a window of size one, or
\* it does not.
RECURSIVE needsShiftPredicateFrom(_, _, _, _)
needsShiftPredicateFrom(e, tv, map, i) ==
  IF i > rootSize(e) THEN {"false"}
  ELSE IF hasHalo(map[i]) THEN {"true"}
  ELSE IF e.op = "shift" /\ e.offset[i] # 0 /\ ~isBroadcast(tv, i)
    THEN {"true"}
  ELSE IF e.op = "gather"
    THEN IF i > Len(e.window)
           THEN {"crash"}
                \cup (IF isBroadcast(tv, i) THEN {} ELSE {"true"})
                \cup needsShiftPredicateFrom(e, tv, map, i + 1)
         ELSE IF ~isOneInt(Const(e.window[i])) /\ ~isBroadcast(tv, i)
           THEN {"true"}
         ELSE needsShiftPredicateFrom(e, tv, map, i + 1)
  ELSE needsShiftPredicateFrom(e, tv, map, i + 1)

needsShiftPredicate(e, tv, map) == needsShiftPredicateFrom(e, tv, map, 1)

\* the entries of a loop body: the expression itself, other expressions,
\* and what insert creates
ExprEntry == <<"expr", 0>>
OtherEntry(k) == <<"expr", k>>
Predicate(ptype, thread_pred) == <<"pred", ptype, thread_pred>>
IfThenElse(pred, thenBody, elseBody) == <<"ite", pred, thenBody, elseBody>>
PadExpr == <<"set", "out_tv", Const(0)>>

Bodies ==
  { [i \in 1 .. n |-> IF i = pos THEN ExprEntry ELSE OtherEntry(i)] :
      <<n, pos>> \in { q \in (1 .. MaxBody) \X (1 .. MaxBody) : q[2] <= q[1] } }

trueVal == <<"bool", TRUE>>
falseVal == <<"bool", FALSE>>
ThreadPreds == { trueVal, falseVal, <<"thread_pred">> }

\* kir::Scope::insert_before and kir::Scope::erase
indexOf(sc, ref) == CHOOSE i \in 1 .. Len(sc) : sc[i] = ref

insert_before(sc, ref, e) ==
  LET at == indexOf(sc, ref)
  IN SubSeq(sc, 1, at - 1) \o <<e>> \o SubSeq(sc, at, Len(sc))

erase(sc, ref) ==
  LET at == indexOf(sc, ref)
  IN SubSeq(sc, 1, at - 1) \o SubSeq(sc, at + 1, Len(sc))

\* an else-branch left empty
elseBodyEmpty(padding_pred) == <<>>

\* "bounds_ite->thenBody().push_back(pad_expr);
\*  shift_ite->elseBody().push_back(bounds_ite)"
elseBody(padding_pred) == <<IfThenElse(padding_pred, <<PadExpr>>, <<>>)>>

\* the expression is wrapped although it holds a block synchronization
hasBlockSyncNever(e) == FALSE

\* ir_utils::hasBlockSync
hasBlockSync(e) == e.sync

\* the body and the expression after insert found that a predicate is needed
insertGuard(e, sc, thread_pred) ==
  LET shift_pred == Predicate("Shift", thread_pred)
      padding_pred == Predicate("Padding", thread_pred)
      shift_ite == IfThenElse(shift_pred, <<ExprEntry>>, elseBody(padding_pred))
  IN IF hasBlockSync(e)
       THEN [expr |-> [e EXCEPT !.predicate = shift_pred], scope |-> sc]
       ELSE [expr |-> e,
             scope |-> erase(insert_before(sc, ExprEntry, shift_ite),
                             ExprEntry)]

InitLower ==
  /\ expr \in ShiftExprs \cup GatherExprs \cup OtherExprs
  /\ out_tv \in Tensors(expr)
  /\ root_axis_map \in AxisInfos(expr, out_tv)
  /\ kir_root_axis_map = root_axis_map
  /\ scope \in Bodies
  /\ generated = NoEntry
  /\ val = NoValidate
  /\ fusion = <<>>
  /\ broadcast = <<>>
  /\ pc = "lowering"
  /\ idx = 0
  /\ DomainIdle
  /\ MergeIdle

\* ShiftPredicateInserter::insert(expr, loops, thread_pred)
Insert ==
  /\ pc = "lowering"
  /\ \E thread_pred \in ThreadPreds,
        needs \in needsShiftPredicate(expr, out_tv, root_axis_map) :
       IF needs = "crash"
         THEN pc' = "crash" /\ UNCHANGED <<expr, scope>>
       ELSE IF needs = "false"
         THEN pc' = "returned" /\ UNCHANGED <<expr, scope>>
       ELSE LET r == insertGuard(expr, scope, thread_pred)
            IN pc' = "inserted" /\ expr' = r.expr /\ scope' = r.scope
  /\ UNCHANGED <<fusion, broadcast, root_axis_map, kir_root_axis_map, idx,
                 domVars, mergeVars, val, out_tv, generated>>

----------------------------------------------------------------------------
(* ShiftPredicateInserter::getPredicate                                    *)

\* the index of root axis i that Index::getConsumerRootPredIndices returns
Index(i) == <<"index", i>>

\* kir::IrBuilder::subExpr, geExpr, ltExpr
plainSubExpr(a, b) == <<"sub", a, b>>
geExpr(a, b) == <<"ge", a, b>>
ltExpr(a, b) == <<"lt", a, b>>

\* kir::SimplifyingIrBuilder::addExpr(kir::Int*, int64_t)
addInt(a, n) ==
  IF n = 0 THEN a
  ELSE IF isConst(a) THEN Const(value(a) + n)
  ELSE IF n > 0 THEN plainAddExpr(a, Const(n))
  ELSE plainSubExpr(a, Const(-n))

\* kir::SimplifyingIrBuilder::andExpr; NoEntry is the null predicate
andExpr(a, b) ==
  IF a = NoEntry THEN b
  ELSE IF b = NoEntry THEN a
  ELSE IF a = falseVal \/ b = falseVal THEN falseVal
  ELSE IF a = trueVal THEN b
  ELSE IF b = trueVal THEN a
  ELSE <<"and", a, b>>

\* kir::IterDomain::start and stop of root axis i: a shift without padding
\* moves the start right by a positive offset and the stop left by a
\* negative one
axisStart(e, i) ==
  IF e.op = "shift" /\ ~e.pad /\ e.offset[i] > 0
    THEN Const(e.offset[i]) ELSE Const(0)

axisStop(e, i) ==
  IF e.op = "shift" /\ ~e.pad /\ e.offset[i] < 0
    THEN plainSubExpr(Extent(i), Const(-e.offset[i])) ELSE Extent(i)

\* the producer read at the position of the consumer
getShiftProducerIndexSame(i, consumer_index, e) == consumer_index

getShiftProducerIndex(i, consumer_index, e) ==
  LET shift_offset == IF e.op = "shift" THEN e.offset[i] ELSE 0
  IN IF shift_offset = 0 THEN consumer_index
     ELSE addInt(consumer_index, -shift_offset)

\* GatherOp::gatherAxis: the window axis of gathered axis i
gatherAxis(e, i) == Len(e.window) + i

getGatherProducerIndex(i, consumer_index, e) ==
  IF e.op # "gather" \/ i > Len(e.window) \/ isOneInt(Const(e.window[i]))
    THEN consumer_index
    ELSE plainSubExpr(plainAddExpr(consumer_index, Index(gatherAxis(e, i))),
                      Const(e.padw[i]))

\* the right limit taken from the halo at the end of the axis
rightLimitHigh(info, stop) == addExpr(stop, width(info, 2))

\* "left_limit" and "right_limit"
leftLimit(info, start) == addExpr(width(info, 1), start)
rightLimit(info, stop) == addExpr(stop, width(info, 1))

producerIndex(e, i) ==
  IF e.op = "shift" THEN getShiftProducerIndex(i, Index(i), e)
  ELSE IF e.op = "gather" THEN getGatherProducerIndex(i, Index(i), e)
  ELSE Index(i)

\* the lower-limit and the upper-limit comparisons of root axis i
lowerLimit(predicate, e, info, i) ==
  LET consumer_index == Index(i)
      producer_index == producerIndex(e, i)
      left_limit == leftLimit(info, axisStart(e, i))
  IN IF e.op = "shift" /\ e.offset[i] > 0
       THEN andExpr(predicate,
                    geExpr(IF e.pad THEN producer_index ELSE consumer_index,
                           left_limit))
     ELSE IF e.op = "gather"
       THEN LET p == andExpr(predicate, geExpr(consumer_index, left_limit))
            IN IF consumer_index # producer_index
                 THEN andExpr(p, geExpr(producer_index, left_limit))
                 ELSE p
     ELSE IF ~isZeroInt(left_limit)
       THEN andExpr(predicate, geExpr(consumer_index, left_limit))
     ELSE predicate

upperLimit(predicate, e, info, i) ==
  LET consumer_index == Index(i)
      producer_index == producerIndex(e, i)
      right_limit == rightLimit(info, axisStop(e, i))
  IN IF e.op = "shift" /\ e.offset[i] < 0
       THEN andExpr(predicate,
                    ltExpr(IF e.pad THEN producer_index ELSE consumer_index,
                           right_limit))
     ELSE IF e.op = "gather"
       THEN LET p == andExpr(predicate, ltExpr(consumer_index, right_limit))
            IN IF consumer_index # producer_index
                 THEN andExpr(p, ltExpr(producer_index, right_limit))
                 ELSE p
     ELSE andExpr(predicate, ltExpr(consumer_index, right_limit))

paddingLimit(predicate, info, i) ==
  andExpr(predicate, ltExpr(Index(i), addExpr(Extent(i), totalWidth(info))))

\* "root_id->isBroadcast() || (buffer_init && root_id->isReduction()) ||
\*  trivialReductionInfo().isDerived(root_id)"
skipped(tv, i, buffer_init) ==
  \/ isBroadcast(tv, i)
  \/ buffer_init /\ isReduction(tv, i)
  \/ isDerived(tv, i)

\* the loop over the root axes, from axis i on
RECURSIVE axisLoop(_, _, _, _, _, _, _)
axisLoop(predicate, e, tv, map, isShiftPredicate, buffer_init, i) ==
  IF i > rootSize(e) THEN predicate
  ELSE IF skipped(tv, i, buffer_init)
    THEN axisLoop(predicate, e, tv, map, isShiftPredicate, buffer_init, i + 1)
  ELSE LET p == IF isShiftPredicate
                  THEN upperLimit(lowerLimit(predicate, e, map[i], i),
                                  e, map[i], i)
                  ELSE paddingLimit(predicate, map[i], i)
       IN axisLoop(p, e, tv, map, isShiftPredicate, buffer_init, i + 1)

\* padding is taken to be unnecessary for elementwise ops only
noPaddingUnlessShift(e) == e.op \notin {"shift", "gather"}

\* "(shift_expr == nullptr && gather_expr == nullptr) ||
\*  (shift_expr && !shift_expr->pad())"
noPadding(e) ==
  \/ e.op \notin {"shift", "gather"}
  \/ e.op = "shift" /\ ~e.pad

\* the thread predicate is dropped
withThreadPredDropped(predicate, thread_pred) == predicate

\* "if (thread_pred->isConst()) ... else predicate = andExpr(...)"
withThreadPred(predicate, thread_pred) ==
  IF thread_pred[1] = "bool"
    THEN IF ~thread_pred[2] THEN falseVal ELSE predicate
    ELSE andExpr(predicate, thread_pred)

\* getPredicate once the assertion on needsShiftPredicate has held
getPredicate(e, tv, map, thread_pred, isShiftPredicate, buffer_init) ==
  IF ~isShiftPredicate /\ noPadding(e) THEN falseVal
  ELSE IF tv.mem = "Local" /\ buffer_init THEN trueVal
  ELSE withThreadPred(
         axisLoop(NoEntry, e, tv, map, isShiftPredicate, buffer_init, 1),
         thread_pred)

\* the kir::Predicate objects insert has created
shiftPredicateOf(e, sc) ==
  IF e.predicate # NoEntry THEN e.predicate
  ELSE LET at == CHOOSE i \in 1 .. Len(sc) : sc[i][1] = "ite"
       IN sc[at][2]

\* the call of getPredicate that turns a kir::Predicate of type Shift or
\* Padding into a condition; the reduction buffer of an output with
\* reduction axes may be what expr initializes
GetPredicate ==
  /\ pc = "inserted"
  /\ \E isShiftPredicate \in BOOLEAN, buffer_init \in BOOLEAN,
        needs \in needsShiftPredicate(expr, out_tv, root_axis_map) :
       /\ ~isShiftPredicate => ~hasBlockSync(expr)
       /\ buffer_init => \E i \in 1 .. rootSize(expr) : isReduction(out_tv, i)
       /\ LET thread_pred == shiftPredicateOf(expr, scope)[3]
          IN IF needs = "crash"
               THEN pc' = "crash" /\ UNCHANGED generated
             ELSE IF needs = "false"
               THEN pc' = "fatal" /\ UNCHANGED generated
             ELSE /\ pc' = "generated"
                  /\ generated' =
                       [shift |-> isShiftPredicate,
                        buffer_init |-> buffer_init,
                        thread_pred |-> thread_pred,
                        result |-> getPredicate(expr, out_tv, root_axis_map,
                                                thread_pred, isShiftPredicate,
                                                buffer_init)]
  /\ UNCHANGED <<fusion, broadcast, root_axis_map, kir_root_axis_map, idx,
                 domVars, mergeVars, val, expr, out_tv, scope>>

NextLower == Insert \/ GetPredicate

SpecLower == InitLower /\ [][NextLower]_vars

----------------------------------------------------------------------------
(* Properties of needsShiftPredicate and of insert                         *)

\* the condition under which a shift predicate is needed: root axis i has
\* halo, or is a shifted or gathered axis that is no broadcast axis
NeedsAxis(i) ==
  \/ hasHalo(root_axis_map[i])
  \/ expr.op = "shift" /\ expr.offset[i] # 0 /\ ~isBroadcast(out_tv, i)
  \/ /\ expr.op = "gather"
     /\ i <= Len(expr.window)
     /\ expr.window[i] # 1
     /\ ~isBroadcast(out_tv, i)

Needed == \E i \in 1 .. rootSize(expr) : NeedsAxis(i)

\* C13: needsShiftPredicate(expr) returns true iff some root axis of the
\* output has nonzero halo, or is the axis of a shift with nonzero offset or
\* of a gather with window size other than 1 and is no broadcast axis.
C13_Original ==
  pc \in {"inserted", "returned", "crash"} =>
    \/ pc = "inserted" /\ Needed
    \/ pc = "returned" /\ ~Needed

InsertStep == pc = "lowering" /\ pc' # pc

\* C19: when a predicate is needed and the expression holds a block
\* synchronization, insert sets the shift predicate as the predicate of the
\* expression and leaves the loop body as it was.
C19_SyncFastPath ==
  [][(InsertStep /\ pc' = "inserted" /\ expr.sync) =>
       /\ scope' = scope
       /\ \E tp \in ThreadPreds :
            expr' = [expr EXCEPT !.predicate = Predicate("Shift", tp)]
    ]_vars

C19_Witness ==
  /\ pc = "inserted"
  /\ expr.sync
  /\ expr.predicate = Predicate("Shift", <<"thread_pred">>)
  /\ scope = <<OtherEntry(1), ExprEntry>>

\* C20: when a predicate is needed and the expression holds no block
\* synchronization, after insert the loop body holds a shift-predicated
\* conditional at the position of the expression, the expression is no
\* entry of the body, every other entry is where it was, the then-branch
\* holds exactly the expression and the else-branch exactly one
\* padding-predicated conditional whose body is one write of literal 0 to
\* the output; when no predicate is needed insert changes nothing.
C20_ConditionalWrap ==
  [][/\ (InsertStep /\ pc' = "inserted" /\ ~expr.sync) =>
          LET at == indexOf(scope, ExprEntry)
          IN /\ expr' = expr
             /\ Len(scope') = Len(scope)
             /\ \A i \in 1 .. Len(scope) : i # at => scope'[i] = scope[i]
             /\ \A i \in 1 .. Len(scope') : scope'[i] # ExprEntry
             /\ \E tp \in ThreadPreds :
                  scope'[at] =
                    <<"ite", <<"pred", "Shift", tp>>, <<ExprEntry>>,
                      << <<"ite", <<"pred", "Padding", tp>>,
                           << <<"set", "out_tv", Const(0)>> >>, <<>> >> >> >>
     /\ (InsertStep /\ pc' = "returned") => (expr' = expr /\ scope' = scope)
    ]_vars

C20_Witness ==
  /\ pc = "inserted"
  /\ ~expr.sync
  /\ Len(scope) = 2
  /\ scope[1] = OtherEntry(1)
  /\ scope[2][1] = "ite"

----------------------------------------------------------------------------
(* Properties of getPredicate                                              *)

Generated == pc = "generated"

\* the comparisons a predicate is the conjunction of
RECURSIVE Conjuncts(_)
Conjuncts(p) ==
  IF p[1] = "and" THEN Conjuncts(p[2]) \cup Conjuncts(p[3]) ELSE {p}

AxisConjuncts == Conjuncts(generated.result) \ {generated.thread_pred}

\* a tensor whose only axis that is no broadcast axis is axis 1, shifted by
\* +2, and none of whose axes has halo
ShiftByTwo(padded) ==
  /\ expr.op = "shift"
  /\ expr.pad = padded
  /\ expr.offset[1] = 2
  /\ out_tv.kinds[1] = "iter"
  /\ \A i \in 2 .. rootSize(expr) : isBroadcast(out_tv, i)
  /\ \A i \in 1 .. rootSize(expr) : ~hasHalo(root_axis_map[i])

\* the conditional insert has put in the place of the expression
Guard == scope[CHOOSE i \in 1 .. Len(scope) : scope[i][1] = "ite"]

GuardShape ==
  /\ Guard[3] = <<ExprEntry>>
  /\ Len(Guard[4]) = 1
  /\ Guard[4][1][3] = <<PadExpr>>

\* C14 as claimed: the copy is gated on producer index >= 2 and the write
\* of 0 on consumer index < extent + 2.
C14_Original ==
  (Generated /\ ShiftByTwo(TRUE) /\ generated.thread_pred # falseVal) =>
    IF generated.shift
      THEN <<"ge", <<"sub", Index(1), Const(2)>>, Const(2)>> \in AxisConjuncts
      ELSE <<"lt", Index(1), <<"add", Extent(1), Const(2)>> >> \in AxisConjuncts

\* C14: for a 1-D tensor shifted by +2 with padding whose consumer has no
\* halo, the guard is a then-branch holding the copy, gated on producer
\* index >= 0 (the producer index being the consumer index - 2) and
\* consumer index < extent, and an else-branch writing literal 0, gated on
\* consumer index < extent.
C14_PaddedShift ==
  (Generated /\ ShiftByTwo(TRUE) /\ generated.thread_pred # falseVal) =>
    /\ GuardShape
    /\ IF generated.shift
         THEN AxisConjuncts =
                { <<"ge", <<"sub", Index(1), Const(2)>>, Const(0)>>,
                  <<"lt", Index(1), Extent(1)>> }
         ELSE AxisConjuncts = { <<"lt", Index(1), Extent(1)>> }

C14_Witness ==
  /\ Generated /\ ShiftByTwo(TRUE)
  /\ ~generated.shift
  /\ generated.result = <<"lt", Index(1), Extent(1)>>
  /\ GuardShape

\* C15: for a 1-D tensor shifted by +2 without padding whose consumer is
\* elementwise, the padding predicate is the constant false, and the shift
\* predicate requires consumer index >= 2.
C15_UnpaddedShift ==
  (Generated /\ ShiftByTwo(FALSE)) =>
    IF generated.shift
      THEN generated.thread_pred # falseVal =>
             <<"ge", Index(1), Const(2)>> \in AxisConjuncts
      ELSE generated.result = falseVal

C15_Witness ==
  /\ Generated /\ ShiftByTwo(FALSE)
  /\ ~generated.shift
  /\ generated.thread_pred = trueVal
  /\ generated.result = falseVal

\* getPredicate went through the loop over the root axes
LoopTaken ==
  /\ Generated
  /\ generated.shift \/ ~noPadding(expr)
  /\ ~(out_tv.mem = "Local" /\ generated.buffer_init)

\* the index the upper-bound comparison of axis i is made on
UpperIndex(i) ==
  IF expr.op = "shift" /\ expr.offset[i] < 0 /\ expr.pad
    THEN <<"add", Index(i), Const(-expr.offset[i])>>
    ELSE Index(i)

UpperBound(i, halo) ==
  <<"lt", UpperIndex(i),
    IF halo = 0 THEN axisStop(expr, i)
    ELSE <<"add", axisStop(expr, i), Const(halo)>> >>

Bounded(i) ==
  /\ LoopTaken /\ generated.shift
  /\ generated.thread_pred # falseVal
  /\ ~skipped(out_tv, i, generated.buffer_init)

\* C17 as claimed: the upper bound of every axis that is not skipped is
\* index < axis stop + high halo width.
C17_Original ==
  \A i \in 1 .. Len(root_axis_map) :
    Bounded(i) =>
      UpperBound(i, value(root_axis_map[i][2])) \in AxisConjuncts

\* C17: the upper bound of every axis that is not skipped is index < axis
\* stop + low halo width of that axis (index = producer index for a padded
\* shift with negative offset, consumer index otherwise), so an axis whose
\* low and high halo widths differ is bounded by its low width.
C17_UpperBoundLow ==
  \A i \in 1 .. Len(root_axis_map) :
    Bounded(i) =>
      UpperBound(i, value(root_axis_map[i][1])) \in AxisConjuncts

C17_Witness ==
  /\ Bounded(1)
  /\ expr.op = "shift" /\ expr.offset[1] < 0 /\ expr.pad
  /\ value(root_axis_map[1][1]) = 1
  /\ value(root_axis_map[1][2]) = 0

\* the conjunction over the axes, or the constant getPredicate returns
\* before the loop over the axes
AxisPart ==
  IF ~generated.shift /\ noPadding(expr) THEN falseVal
  ELSE IF out_tv.mem = "Local" /\ generated.buffer_init THEN trueVal
  ELSE axisLoop(NoEntry, expr, out_tv, root_axis_map, generated.shift,
                generated.buffer_init, 1)

Conjoined ==
  generated.result =
    (IF generated.thread_pred = falseVal THEN falseVal
     ELSE IF generated.thread_pred = trueVal THEN AxisPart
     ELSE IF AxisPart = falseVal THEN falseVal
     ELSE IF AxisPart = trueVal THEN generated.thread_pred
     ELSE <<"and", AxisPart, generated.thread_pred>>)

BufferInitPath ==
  /\ generated.shift \/ ~noPadding(expr)
  /\ out_tv.mem = "Local" /\ generated.buffer_init

\* C18 as claimed: on every path the result is false for a constant-false
\* thread predicate, the axis conjunction for a constant-true one, and the
\* conjunction of the two otherwise.
C18_Original == Generated => Conjoined

\* C18: on every path but that of the initialization of a reduction buffer
\* in local memory the result is false for a constant-false thread
\* predicate, the axis conjunction for a constant-true one and the
\* conjunction of the two otherwise; on that path it is the constant true
\* whatever the thread predicate.
C18_ThreadPredicate ==
  Generated =>
    IF BufferInitPath THEN generated.result = trueVal ELSE Conjoined

C18_Witness ==
  /\ Generated
  /\ ~BufferInitPath
  /\ generated.buffer_init
  /\ generated.thread_pred = <<"thread_pred">>
  /\ generated.result[1] = "and"
  /\ generated.result[3] = <<"thread_pred">>

----------------------------------------------------------------------------
(* The maps after the forward propagation of a tensor domain               *)

\* build(td) of tensor t has gone through the loop over the root axes
RootsBuilt(t) == t < td \/ (t = td /\ idx >= 1)

\* the axis is a root axis build(td) has entered, or an output of an
\* expression it has visited
Reached(t, pos) ==
  \/ pos \in Roots /\ RootsBuilt(t)
  \/ \E k \in 1 .. Len(shape) : Visited(t, k) /\ pos \in Outputs(shape[k])

\* the axis is the output of a merge one of whose inputs has an
\* extended-extent entry
HaloMerge(t, pos) ==
  LET m == definition(shape, pos)
  IN /\ m.kind = "merge"
     /\ \/ kir_extent_map[<<t, m.outer>>] # NoEntry
        \/ kir_extent_map[<<t, m.inner>>] # NoEntry

MapPresence(t, pos) ==
  LET id == <<t, pos>>
  IN /\ hasHaloWidth(halo_width_map, id) \/ HaloMerge(t, pos)
     /\ ~hasHaloWidth(halo_width_map, id) <=> HaloMerge(t, pos)
     /\ HaloMerge(t, pos) => kir_extent_map[id] # NoEntry
     /\ hasHaloWidth(halo_width_map, id) =>
          (kir_extent_map[id] # NoEntry <=> ~isZeroInt(halo_width_map[id]))

\* C21: every axis reached by the traversal of build(td) has a scalar
\* halo-width entry or is the output of a merge with a halo-extended input;
\* the scalar entry is absent exactly for those merge outputs, each of which
\* has an extended-extent entry; and an axis with a scalar entry has an
\* extended-extent entry iff its scalar width is nonzero.
C21_MapPresence ==
  \A t \in DomTvs, pos \in AxesOf(shape) :
    Reached(t, pos) => MapPresence(t, pos)

\* both domains are built; one holds a halo-merge output, a split output
\* with halo and a split output without
C21_Witness ==
  /\ td = 3
  /\ \E t \in DomTvs, a \in AxesOf(shape), b \in AxesOf(shape),
        c \in AxesOf(shape) :
       /\ HaloMerge(t, a)
       /\ definition(shape, b).kind = "split"
       /\ hasHaloWidth(halo_width_map, <<t, b>>)
       /\ ~isZeroInt(halo_width_map[<<t, b>>])
       /\ definition(shape, c).kind = "split"
       /\ hasHaloWidth(halo_width_map, <<t, c>>)
       /\ isZeroInt(halo_width_map[<<t, c>>])

----------------------------------------------------------------------------
(* The halo of a producer against the halo of its consumers                *)

\* the producer's halo on side pos is no smaller than the consumer's
Covers(p, c, pos) ==
  value(root_axis_map[p][pos]) >= value(root_axis_map[c][pos])

\* the mapped pairs of the claim: a consumer root axis that is no broadcast
\* axis and the root axis of a producer that is no fusion input
MappedPairs ==
  { q \in Tvs \X ExprIds :
      q[1] \in producersOf(fusion, q[2]) /\ ~broadcast[q[2]] }

\* C22 as claimed: after the backward pass, for every op of every kind the
\* producer's low halo is >= the consumer's low halo and its high halo is
\* >= the consumer's high halo.
C22_Original ==
  WalkDone =>
    \A q \in MappedPairs : Covers(q[1], q[2], 1) /\ Covers(q[1], q[2], 2)

\* the sides of the halo of the consumer that the op hands to the producer
\* in full
MergedSides(e) ==
  IF e.op = "other" THEN {1, 2}
  ELSE IF e.op = "shift"
    THEN (IF e.offset = 0 THEN {1, 2}
          ELSE IF e.offset > 0 THEN {1} ELSE {2})
  ELSE IF e.op = "gather" /\ e.window > 1
    THEN {1} \cup (IF e.window - e.pad - 1 >= 0 THEN {2} ELSE {})
  ELSE {}

\* C22: after the backward pass the producer's halo is >= the consumer's
\* on both sides for an elementwise op and a shift by zero, on the side of
\* the offset (low for a positive, high for a negative offset) for a shift
\* with nonzero offset, and for a gather with a window larger than one on
\* the low side and, when the left padding is at most window - 1, on the
\* high side.
C22_Conservative ==
  WalkDone =>
    \A q \in MappedPairs :
      \A pos \in MergedSides(fusion[q[2]]) : Covers(q[1], q[2], pos)

\* a shift with positive offset whose consumer has halo on the high side:
\* the producer's low halo is larger than the consumer's, its high halo
\* smaller
C22_Witness ==
  /\ WalkDone
  /\ \E q \in MappedPairs :
       /\ fusion[q[2]].op = "shift" /\ fusion[q[2]].offset > 0
       /\ value(root_axis_map[q[1]][1]) > value(root_axis_map[q[2]][1])
       /\ ~Covers(q[1], q[2], 2)
  /\ \E q \in MappedPairs :
       fusion[q[2]].op = "other" /\ hasHalo(root_axis_map[q[2]])

----------------------------------------------------------------------------
(* The comparators on halo widths that are no constants.  A root axis has  *)
(* no halo, the named scalar Sym(1) as its low halo, or the named scalars  *)
(* Sym(1) and Sym(2) as its low and high halo; AxisHaloInfo::width() of    *)
(* the last is an expression node built anew for every tensor.             *)

SymRootInfos ==
  { AxisHaloInfo, <<Sym(1), zeroVal>>, <<Sym(1), Sym(2)>> }

InitCompare ==
  /\ root_axis_map \in [RootKeys -> SymRootInfos]
  /\ kir_root_axis_map = root_axis_map
  /\ fusion = <<>>
  /\ broadcast = <<>>
  /\ halo_width_map = [k \in Keys |-> NoEntry]
  /\ kir_extent_map = [k \in Keys |-> NoEntry]
  /\ shape = <<>>
  /\ td = 1
  /\ merged_shifted_ids = {}
  /\ cmp = NoEntry
  /\ pc = "roots"
  /\ idx = 0
  /\ MergeIdle
  /\ LowerIdle

SpecCompare == InitCompare /\ [][NextDomain]_vars

\* the two halo widths are compared on their values or as one object
Direct(q) ==
  LET x == halo_width_map[q[1]]
      y == halo_width_map[q[2]]
  IN samePointer(x, y) \/ (isConst(x) /\ isConst(y))

\* extentEqual has returned true on the two axes
EqualHeld == Called /\ cmp.kind = "equal" /\ cmp.result = "true"

LessEqualBothWays(r) ==
  /\ extentLessEqual(halo_width_map, shape, cmp.id1, cmp.id2) = r
  /\ extentLessEqual(halo_width_map, shape, cmp.id2, cmp.id1) = r

\* C23 as claimed: whenever extentEqual(a, b) is true, extentLessEqual(a, b)
\* and extentLessEqual(b, a) are true, also for widths that are distinct
\* expression nodes equal in structure only.
C23_Original == EqualHeld => LessEqualBothWays("true")

\* C23: whenever extentEqual(a, b) is true, extentLessEqual(a, b) and
\* extentLessEqual(b, a) are true if every pair of halo widths the
\* comparison gets to is a pair of constants or one object, and both are
\* false if some pair is two distinct expression nodes that are equal in
\* structure only.
C23_Consistent ==
  EqualHeld =>
    IF \A q \in ComparedPairs(cmp.id1, cmp.id2) : Direct(q)
      THEN LessEqualBothWays("true")
      ELSE LessEqualBothWays("false")

\* extentEqual is true on two halo-merge outputs whose operands have the
\* same named scalar as width
C23_Witness ==
  /\ EqualHeld
  /\ WidthlessMerge(cmp.id1)
  /\ \A q \in ComparedPairs(cmp.id1, cmp.id2) : Direct(q)
  /\ \E q \in ComparedPairs(cmp.id1, cmp.id2) : halo_width_map[q[1]] = Sym(1)

----------------------------------------------------------------------------
(* The reads of the window shape in needsShiftPredicate                    *)

\* some run of needsShiftPredicate on the expression reads windowShape()
\* at an index that is not below its size
ReadsPastWindowShape ==
  "crash" \in needsShiftPredicate(expr, out_tv, root_axis_map)

\* C24: for a gather whose output has more root axes than the operator has
\* window-shape entries, needsShiftPredicate never reads the window shape
\* at an index >= its size, whatever the window sizes and halo widths.
C24_Original ==
  (pc # "lowering" /\ expr.op = "gather"
     /\ rootSize(expr) > Len(expr.window)) => ~ReadsPastWindowShape

====
